---- MODULE Spec2Model ----
(***************************************************************************)
(* Kandel market-making backtester: the order ladder (OrderBook), the      *)
(* strategy controller (Kandel) that owns it, and the calls made on them.  *)
(*                                                                         *)
(* Number representation.  The program computes with floats.  Here every   *)
(* amount (quote, base, order quantity, capital, fee) is an integer count  *)
(* of 1/Scale units and a division rounds down to the unit, so an          *)
(* equality of the program that goes through a division holds up to one    *)
(* unit per division.  Prices are whole numbers.  The tick base is 2       *)
(* (price = 2^tick) where the program uses 1.0001: the floor-of-logarithm  *)
(* structure of the tick math is kept, the tick spacing is coarser.  The   *)
(* volatility input v stands for the volatility whose range multiplier     *)
(* exp(vol_mult * vol) is 1 + vol_mult * v.                                *)
(***************************************************************************)
EXTENDS Integers, Sequences, FiniteSets

(* ------------------------------ bounds -------------------------------- *)

\* Number of calls made on the controller after its construction; in a driver
\* run, the length of the price series.
MaxSteps == 3
\* Largest volatility level fed to the controller.
MaxVol == 3
\* Largest spot price fed to the controller.
MaxSpot == 16

\* Amounts are counted in units of 1/Scale.
Scale == 2 ^ 10

(* ------------------------- strategy config ---------------------------- *)

initial_capital == 96 * Scale
performance_fees_pct == 10
vol_mult == 1
range_mult == 2
n_points == 2
\* accepted by the configuration; no operation of the controller or of the
\* ladder reads it
step_size == 2
window == 2
exit_vol_threshold == 1
\* asymmetric_exit_threshold = 1/2, in units of 1/Scale
asymmetric_exit_threshold == Scale \div 2

(* ------------------------------ inputs -------------------------------- *)

\* Spot prices of the series: the powers of two (exactly on a tick) and the
\* points 3 * 2^k and 5 between two ticks (in the upper and in the lower part
\* of the tick), no smaller than the widest range multiplier so that every
\* grid price is at least one price unit.
Spots ==
    {p \in {2, 3, 4, 5, 6, 8, 12, 16, 24, 32} : MaxVol + 1 <= p /\ p <= MaxSpot}
Vols == 0 .. MaxVol
ExitVols == 0 .. (exit_vol_threshold + 1)

BID == "bid"
ASK == "ask"

(* ----------------------------- tick math ------------------------------ *)

Pow2(t) == 2 ^ t

\* floor(log2(num / den)) for num / den >= 1: the largest t with den * 2^t <= num.
RECURSIVE Log2Floor(_, _, _)
Log2Floor(num, den, t) ==
    IF den * Pow2(t + 1) <= num THEN Log2Floor(num, den, t + 1) ELSE t

\* The tick of a price read as the ceiling of the logarithm: a price strictly
\* between two ticks gets the upper one.
price_to_tick_ceiling(num, den) ==
    LET t == Log2Floor(num, den, 0)
    IN IF den * Pow2(t) = num THEN t ELSE t + 1

price_to_tick(num, den) == Log2Floor(num, den, 0)

tick_to_price(tick) == Pow2(tick)

(* ----------------------------- sequences ------------------------------ *)

RECURSIVE SeqSum(_)
SeqSum(s) == IF s = <<>> THEN 0 ELSE Head(s) + SeqSum(Tail(s))

InsertAt(s, i, x) == SubSeq(s, 1, i - 1) \o <<x>> \o SubSeq(s, i, Len(s))

Range(s) == {s[i] : i \in 1 .. Len(s)}

\* The sorted sequence of the members of a finite set of integers (np.unique).
RECURSIVE SortedSeq(_)
SortedSeq(S) ==
    IF S = {} THEN <<>>
    ELSE LET m == CHOOSE x \in S : \A y \in S : x <= y
         IN <<m>> \o SortedSeq(S \ {m})

(* ---------------------------- Order ladder ---------------------------- *)

\* An order as the ladder constructs it: Order(order_type, qty, price).
Order(order_type, qty, price) ==
    [order_type |-> order_type, qty |-> qty, price |-> price]

\* build_book with its Asks one grid point lower: from the middle point on,
\* the last point left without an order.
build_book_asks_from_middle(capital, price_grid, current_price) ==
    IF Len(price_grid) = 0 THEN <<>>
    ELSE LET nb_price_points == Len(price_grid) - 1
             half == nb_price_points \div 2
             bids == [i \in 1 .. half |->
                        Order(BID,
                              (capital \div price_grid[i]) \div nb_price_points,
                              price_grid[i])]
             asks == [i \in 1 .. (nb_price_points - half) |->
                        Order(ASK,
                              (capital \div current_price) \div nb_price_points,
                              price_grid[half + i])]
         IN bids \o asks

\* build_book sizing each Ask by its own price, as it sizes the Bids.
build_book_asks_own_price(capital, price_grid, current_price) ==
    IF Len(price_grid) = 0 THEN <<>>
    ELSE LET nb_price_points == Len(price_grid) - 1
             half == nb_price_points \div 2
             bids == [i \in 1 .. half |->
                        Order(BID,
                              (capital \div price_grid[i]) \div nb_price_points,
                              price_grid[i])]
             asks == [i \in 1 .. (nb_price_points - half) |->
                        Order(ASK,
                              (capital \div price_grid[half + 1 + i])
                                  \div nb_price_points,
                              price_grid[half + 1 + i])]
         IN bids \o asks

\* OrderBook.build_book: the orders of the new ladder.  One order per grid
\* point but the middle one: Bids on the lower half, sized by their own price,
\* Asks on the upper half, sized by the current price.  An empty grid gives an
\* empty ladder.
build_book(capital, price_grid, current_price) ==
    IF Len(price_grid) = 0 THEN <<>>
    ELSE LET nb_price_points == Len(price_grid) - 1
             half == nb_price_points \div 2
             bids == [i \in 1 .. half |->
                        Order(BID,
                              (capital \div price_grid[i]) \div nb_price_points,
                              price_grid[i])]
             asks == [i \in 1 .. (nb_price_points - half) |->
                        Order(ASK,
                              (capital \div current_price) \div nb_price_points,
                              price_grid[half + 1 + i])]
         IN bids \o asks

\* The loop of OrderBook.add_order from position i on: the first position at
\* which one of its four tests succeeds decides; when none does the ladder is
\* left as it is.
RECURSIVE add_order_from(_, _, _)
add_order_from(orders, new_order, i) ==
    IF i > Len(orders) THEN orders
    ELSE IF new_order.price = orders[i].price
            /\ new_order.order_type = orders[i].order_type
         THEN [orders EXCEPT ![i].qty = @ + new_order.qty]
    ELSE IF new_order.price = orders[i].price
         THEN InsertAt(orders, i, new_order)
    ELSE IF orders[i].price < new_order.price /\ i = Len(orders)
         THEN Append(orders, new_order)
    ELSE IF orders[i].price < new_order.price
            /\ new_order.price < orders[i + 1].price
         THEN InsertAt(orders, i + 1, new_order)
    ELSE add_order_from(orders, new_order, i + 1)

\* OrderBook.add_order.  It reads orders[0] first: on an empty ladder that
\* read raises IndexError (err).
add_order(orders, new_order) ==
    IF Len(orders) = 0 THEN [orders |-> orders, err |-> TRUE]
    ELSE IF new_order.price < orders[1].price
         THEN [orders |-> <<new_order>> \o orders, err |-> FALSE]
    ELSE [orders |-> add_order_from(orders, new_order, 1), err |-> FALSE]

\* list.index: the first position (from 1) of price in the grid, 0 if absent.
grid_index(price_grid, price) ==
    IF \E i \in 1 .. Len(price_grid) : price_grid[i] = price
    THEN CHOOSE i \in 1 .. Len(price_grid) :
            /\ price_grid[i] = price
            /\ \A j \in 1 .. (i - 1) : price_grid[j] # price
    ELSE 0

\* dual_index with the two directions exchanged: below a filled Bid, above a
\* filled Ask.
dual_index_swapped(price_grid, side, idx) ==
    IF side = BID
    THEN (IF idx - 1 >= 1 THEN idx - 1 ELSE Len(price_grid))
    ELSE (IF idx + 1 <= Len(price_grid) THEN idx + 1 ELSE 0)

\* dual_index honouring the configured skip distance: step_size positions
\* above a Bid, step_size below an Ask.
dual_index_step_size(price_grid, side, idx) ==
    IF side = BID
    THEN (IF idx + step_size <= Len(price_grid) THEN idx + step_size ELSE 0)
    ELSE (IF idx - step_size >= 1 THEN idx - step_size
          ELSE Len(price_grid) + idx - step_size)

\* The grid position place_dual_offers replenishes at for a fill of the given
\* side at position idx: one above a Bid, one below an Ask.  Below the first
\* position Python's negative index wraps to the last one; 0 stands for a
\* position past the end (IndexError).
dual_index(price_grid, side, idx) ==
    IF side = BID
    THEN (IF idx + 1 <= Len(price_grid) THEN idx + 1 ELSE 0)
    ELSE (IF idx - 1 >= 1 THEN idx - 1 ELSE Len(price_grid))

\* The order place_dual_offers adds for one filled order.
dual_offer(price_grid, side, transaction) ==
    LET order_price ==
            price_grid[dual_index(price_grid, side,
                                  grid_index(price_grid, transaction.price))]
    IN IF side = BID
       THEN Order(ASK, transaction.qty, order_price)
       ELSE Order(BID,
                  (transaction.qty * transaction.price) \div order_price,
                  order_price)

\* The loop of OrderBook.place_dual_offers from transaction k on; acc carries
\* the ladder, the inventory changes summed so far and whether a call raised.
RECURSIVE place_dual_offers_from(_, _, _, _, _)
place_dual_offers_from(acc, price_grid, transactions, side, k) ==
    IF k > Len(transactions) \/ acc.err THEN acc
    ELSE LET transaction == transactions[k]
             idx == grid_index(price_grid, transaction.price)
             sign == IF side = BID THEN 1 ELSE -1
             changed == [acc EXCEPT
                           !.quote_change = @ - sign * transaction.price * transaction.qty,
                           !.base_change = @ + sign * transaction.qty]
         IN IF idx = 0 \/ dual_index(price_grid, side, idx) = 0
            THEN [changed EXCEPT !.err = TRUE]
            ELSE LET added == add_order(acc.orders,
                                        dual_offer(price_grid, side, transaction))
                 IN place_dual_offers_from(
                        [changed EXCEPT !.orders = added.orders, !.err = added.err],
                        price_grid, transactions, side, k + 1)

\* OrderBook.place_dual_offers: the side of the whole batch is the side of
\* its first transaction.
place_dual_offers(orders, price_grid, transactions) ==
    place_dual_offers_from(
        [orders |-> orders, quote_change |-> 0, base_change |-> 0, err |-> FALSE],
        price_grid, transactions, transactions[1].order_type, 1)

\* arbitrate with strict comparisons: an order priced exactly at the spot is
\* not filled.
arbitrate_strict(orders, current_price, spot) ==
    LET BidHit(o) == o.order_type = BID /\ spot < o.price
        BidKept(o) == (o.order_type = BID /\ spot >= o.price) \/ o.order_type = ASK
        AskHit(o) == o.order_type = ASK /\ spot > o.price
        AskKept(o) == (o.order_type = ASK /\ spot <= o.price) \/ o.order_type = BID
    IN IF spot < current_price
       THEN [transactions |-> SelectSeq(orders, BidHit),
             orders |-> SelectSeq(orders, BidKept),
             current_price |-> spot]
       ELSE IF spot > current_price
       THEN [transactions |-> SelectSeq(orders, AskHit),
             orders |-> SelectSeq(orders, AskKept),
             current_price |-> spot]
       ELSE [transactions |-> <<>>, orders |-> orders, current_price |-> spot]

\* arbitrate working on a copy: it reports the fills and stores neither the
\* filtered ladder nor the new reference price.
arbitrate_on_copy(orders, current_price, spot) ==
    LET BidHit(o) == o.order_type = BID /\ spot <= o.price
        AskHit(o) == o.order_type = ASK /\ spot >= o.price
    IN [transactions |-> IF spot < current_price THEN SelectSeq(orders, BidHit)
                         ELSE IF spot > current_price THEN SelectSeq(orders, AskHit)
                         ELSE <<>>,
        orders |-> orders,
        current_price |-> current_price]

\* arbitrate storing the reference price only when it filled something.
arbitrate_price_on_fill(orders, current_price, spot) ==
    LET BidHit(o) == o.order_type = BID /\ spot <= o.price
        BidKept(o) == (o.order_type = BID /\ spot > o.price) \/ o.order_type = ASK
        AskHit(o) == o.order_type = ASK /\ spot >= o.price
        AskKept(o) == (o.order_type = ASK /\ spot < o.price) \/ o.order_type = BID
        hit == IF spot < current_price THEN SelectSeq(orders, BidHit)
               ELSE IF spot > current_price THEN SelectSeq(orders, AskHit)
               ELSE <<>>
    IN [transactions |-> hit,
        orders |-> IF spot < current_price THEN SelectSeq(orders, BidKept)
                   ELSE IF spot > current_price THEN SelectSeq(orders, AskKept)
                   ELSE orders,
        current_price |-> IF hit # <<>> THEN spot ELSE current_price]

\* OrderBook.arbitrate: the filled orders and the orders left resting.
arbitrate(orders, current_price, spot) ==
    LET BidHit(o) == o.order_type = BID /\ spot <= o.price
        BidKept(o) == (o.order_type = BID /\ spot > o.price) \/ o.order_type = ASK
        AskHit(o) == o.order_type = ASK /\ spot >= o.price
        AskKept(o) == (o.order_type = ASK /\ spot < o.price) \/ o.order_type = BID
    IN IF spot < current_price
       THEN [transactions |-> SelectSeq(orders, BidHit),
             orders |-> SelectSeq(orders, BidKept),
             current_price |-> spot]
       ELSE IF spot > current_price
       THEN [transactions |-> SelectSeq(orders, AskHit),
             orders |-> SelectSeq(orders, AskKept),
             current_price |-> spot]
       ELSE [transactions |-> <<>>, orders |-> orders, current_price |-> spot]

(* ------------------------ Strategy controller ------------------------- *)

VARIABLES
    spot_price,     \* Kandel.spot_price
    base,           \* Kandel.base
    quote,          \* Kandel.quote
    open_price,     \* Kandel.open_price
    open_capital,   \* Kandel.open_capital
    vol,            \* Kandel.vol
    ticks_grid,     \* Kandel.ticks_grid
    is_active,      \* Kandel.is_active
    orders,         \* OrderBook.orders
    current_price,  \* OrderBook.current_price
    price_grid,     \* OrderBook.price_grid
    crashed,        \* an exception left the last call: the run is over
    ret,            \* the last call made: its name, arguments and results
    steps           \* number of calls made since construction

vars == <<spot_price, base, quote, open_price, open_capital, vol, ticks_grid,
          is_active, orders, current_price, price_grid, crashed, ret, steps>>

kandel_vars == <<spot_price, base, quote, open_price, open_capital, vol,
                 ticks_grid, is_active>>

book_vars == <<orders, current_price, price_grid>>

\* np.exp(vol_mult * vol) at volatility level v, or the static range_mult.
range_multiplier(v) == IF vol_mult # 0 THEN 1 + vol_mult * v ELSE range_mult

\* linspace as astype(int) would cut it: every value rounded toward zero, so
\* a negative value is rounded up.
linspace_toward_zero(min_tick, max_tick, num) ==
    [i \in 1 .. num |->
        LET total == min_tick * (num - 1) + (i - 1) * (max_tick - min_tick)
        IN IF total < 0 THEN 0 - ((0 - total) \div (num - 1))
                        ELSE total \div (num - 1)]

\* np.linspace(min_tick, max_tick, num, dtype=int): num evenly spaced values,
\* each cut down to an integer.
linspace(min_tick, max_tick, num) ==
    [i \in 1 .. num |->
        min_tick + ((i - 1) * (max_tick - min_tick)) \div (num - 1)]

\* _update_ticks_grid without its last two lines: an even number of ticks is
\* kept as it is.
update_ticks_grid_untrimmed(spot, v) ==
    LET min_tick == price_to_tick(spot, range_multiplier(v))
        max_tick == price_to_tick(spot * range_multiplier(v), 1)
    IN SortedSeq(Range(linspace(min_tick, max_tick, n_points * 2 + 1)))

\* Kandel._update_ticks_grid: the deduplicated ticks from the tick of
\* spot / range to the tick of spot * range; of an even number of ticks the
\* last is dropped.
update_ticks_grid(spot, v) ==
    LET min_tick == price_to_tick(spot, range_multiplier(v))
        max_tick == price_to_tick(spot * range_multiplier(v), 1)
        grid == SortedSeq(Range(linspace(min_tick, max_tick, n_points * 2 + 1)))
    IN IF Len(grid) % 2 # 1 THEN SubSeq(grid, 1, Len(grid) - 1) ELSE grid

\* The prices of the grid's ticks, as the ladder holds them.
grid_prices(grid) == [i \in 1 .. Len(grid) |-> tick_to_price(grid[i])]

\* should_exit with >= for >.
should_exit_at_threshold(exit_vol) == exit_vol >= exit_vol_threshold

\* Kandel.should_exit
should_exit(exit_vol) == exit_vol > exit_vol_threshold

\* Kandel.exit: spot / open_price - 1, in units of 1/Scale.
open_close_ratio(spot, open) == (spot * Scale) \div open - Scale

\* exit_quote with >= and <= for > and <.
exit_quote_at_threshold(q, b, spot, open) ==
    IF open_close_ratio(spot, open) >= asymmetric_exit_threshold
    THEN (q + b * spot) \div 4
    ELSE IF open_close_ratio(spot, open) <= -asymmetric_exit_threshold
    THEN ((q + b * spot) * 3) \div 4
    ELSE (q + b * spot) \div 2

\* Kandel.exit: the quote balance it sets.
exit_quote(q, b, spot, open) ==
    IF open_close_ratio(spot, open) > asymmetric_exit_threshold
    THEN (q + b * spot) \div 4
    ELSE IF open_close_ratio(spot, open) < -asymmetric_exit_threshold
    THEN ((q + b * spot) * 3) \div 4
    ELSE (q + b * spot) \div 2

\* exit_base taking the base balance as quote / spot in every branch: the
\* factors 3 and 1/3 of the asymmetric branches are left out.
exit_base_symmetric(q, b, spot, open) == exit_quote(q, b, spot, open) \div spot

\* Kandel.exit: the base balance it sets, from the quote balance just set.
exit_base(q, b, spot, open) ==
    IF open_close_ratio(spot, open) > asymmetric_exit_threshold
    THEN (exit_quote(q, b, spot, open) * 3) \div spot
    ELSE IF open_close_ratio(spot, open) < -asymmetric_exit_threshold
    THEN (exit_quote(q, b, spot, open) \div 3) \div spot
    ELSE exit_quote(q, b, spot, open) \div spot

\* generated_fees without its test: the rate is applied to a loss as well.
generated_fees_unconditional(capital, open) ==
    ((capital - open) * performance_fees_pct) \div 100

\* Kandel.rebalance: the performance fee on the capital gained since the last
\* rebalance.
generated_fees(capital, open) ==
    IF capital > open
    THEN ((capital - open) * performance_fees_pct) \div 100
    ELSE 0

\* The controller and the ladder it owns, as one record of their fields.
Self ==
    [spot_price |-> spot_price, base |-> base, quote |-> quote,
     open_price |-> open_price, open_capital |-> open_capital, vol |-> vol,
     ticks_grid |-> ticks_grid, is_active |-> is_active, orders |-> orders,
     current_price |-> current_price, price_grid |-> price_grid,
     crashed |-> crashed]

\* The fields after a call are those of record k.
Becomes(k) ==
    /\ spot_price' = k.spot_price
    /\ base' = k.base
    /\ quote' = k.quote
    /\ open_price' = k.open_price
    /\ open_capital' = k.open_capital
    /\ vol' = k.vol
    /\ ticks_grid' = k.ticks_grid
    /\ is_active' = k.is_active
    /\ orders' = k.orders
    /\ current_price' = k.current_price
    /\ price_grid' = k.price_grid
    /\ crashed' = k.crashed

\* exit without its build_book call: the ladder is left as it was.
exit_keeps_ladder(k) ==
    [k EXCEPT
        !.quote = exit_quote(k.quote, k.base, k.spot_price, k.open_price),
        !.base = exit_base(k.quote, k.base, k.spot_price, k.open_price),
        !.is_active = FALSE]

\* exit recording the capital and the price it exits at as the baseline of
\* the next fee.
exit_resets_baseline(k) ==
    [k EXCEPT
        !.quote = exit_quote(k.quote, k.base, k.spot_price, k.open_price),
        !.base = exit_base(k.quote, k.base, k.spot_price, k.open_price),
        !.orders = build_book(0, <<>>, k.current_price),
        !.price_grid = <<>>,
        !.open_price = k.spot_price,
        !.open_capital = k.quote + k.base * k.spot_price,
        !.is_active = FALSE]

\* Kandel.exit
exit(k) ==
    [k EXCEPT
        !.quote = exit_quote(k.quote, k.base, k.spot_price, k.open_price),
        !.base = exit_base(k.quote, k.base, k.spot_price, k.open_price),
        !.orders = build_book(0, <<>>, k.current_price),
        !.price_grid = <<>>,
        !.is_active = FALSE]

\* __init__ exiting at the threshold as well as above it.
kandel_init_exit_at_threshold(spot, v, exit_vol) ==
    LET grid == update_ticks_grid(spot, v)
        k == [spot_price |-> spot,
              base |-> (initial_capital \div 2) \div spot,
              quote |-> initial_capital \div 2,
              open_price |-> spot,
              open_capital |-> initial_capital,
              vol |-> v,
              ticks_grid |-> grid,
              is_active |-> TRUE,
              orders |-> build_book(initial_capital, grid_prices(grid), spot),
              current_price |-> spot,
              price_grid |-> grid_prices(grid),
              crashed |-> FALSE]
    IN IF exit_vol >= exit_vol_threshold THEN exit(k) ELSE k

\* Kandel.__init__
kandel_init(spot, v, exit_vol) ==
    LET grid == update_ticks_grid(spot, v)
        k == [spot_price |-> spot,
              base |-> (initial_capital \div 2) \div spot,
              quote |-> initial_capital \div 2,
              open_price |-> spot,
              open_capital |-> initial_capital,
              vol |-> v,
              ticks_grid |-> grid,
              is_active |-> TRUE,
              orders |-> build_book(initial_capital, grid_prices(grid), spot),
              current_price |-> spot,
              price_grid |-> grid_prices(grid),
              crashed |-> FALSE]
    IN IF should_exit(exit_vol) THEN exit(k) ELSE k

\* Kandel.rebalance: the fee it returns.
rebalance_fees(k) ==
    generated_fees(k.quote + k.base * k.spot_price, k.open_capital)

\* rebalance without its last assignment: is_active is left as it was.
rebalance_no_reactivate(k) ==
    LET grid == update_ticks_grid(k.spot_price, k.vol)
        capital == k.quote + k.base * k.spot_price - rebalance_fees(k)
    IN [k EXCEPT
          !.ticks_grid = grid,
          !.current_price = k.spot_price,
          !.price_grid = grid_prices(grid),
          !.orders = build_book(capital, grid_prices(grid), k.spot_price),
          !.quote = capital \div 2,
          !.base = (capital \div 2) \div k.spot_price,
          !.open_price = k.spot_price,
          !.open_capital = capital]

\* rebalance keeping a running maximum as its baseline: open_capital is never
\* lowered.
rebalance_high_water(k) ==
    LET grid == update_ticks_grid(k.spot_price, k.vol)
        capital == k.quote + k.base * k.spot_price - rebalance_fees(k)
    IN [k EXCEPT
          !.ticks_grid = grid,
          !.current_price = k.spot_price,
          !.price_grid = grid_prices(grid),
          !.orders = build_book(capital, grid_prices(grid), k.spot_price),
          !.quote = capital \div 2,
          !.base = (capital \div 2) \div k.spot_price,
          !.open_price = k.spot_price,
          !.open_capital = IF capital > k.open_capital THEN capital
                           ELSE k.open_capital,
          !.is_active = TRUE]

\* rebalance without its assignment to order_book.current_price: the ladder
\* is built around the reference price the ladder last stored.
rebalance_stale_price(k) ==
    LET grid == update_ticks_grid(k.spot_price, k.vol)
        capital == k.quote + k.base * k.spot_price - rebalance_fees(k)
    IN [k EXCEPT
          !.ticks_grid = grid,
          !.price_grid = grid_prices(grid),
          !.orders = build_book(capital, grid_prices(grid), k.current_price),
          !.quote = capital \div 2,
          !.base = (capital \div 2) \div k.spot_price,
          !.open_price = k.spot_price,
          !.open_capital = capital,
          !.is_active = TRUE]

\* Kandel.rebalance
rebalance(k) ==
    LET grid == update_ticks_grid(k.spot_price, k.vol)
        capital == k.quote + k.base * k.spot_price - rebalance_fees(k)
    IN [k EXCEPT
          !.ticks_grid = grid,
          !.current_price = k.spot_price,
          !.price_grid = grid_prices(grid),
          !.orders = build_book(capital, grid_prices(grid), k.spot_price),
          !.quote = capital \div 2,
          !.base = (capital \div 2) \div k.spot_price,
          !.open_price = k.spot_price,
          !.open_capital = capital,
          !.is_active = TRUE]

\* Kandel.update_kandel_state: the orders its arbitrate call fills.
update_transactions(k, spot) ==
    IF k.is_active
    THEN arbitrate(k.orders, k.current_price, spot).transactions
    ELSE <<>>

\* update_kandel_state with its should_exit test outside the is_active block:
\* an Exited controller exits again.
update_kandel_state_exit_unguarded(k, spot, window_vol, exit_vol) ==
    LET k0 == [k EXCEPT !.spot_price = spot, !.vol = window_vol]
    IN IF ~k.is_active THEN (IF should_exit(exit_vol) THEN exit(k0) ELSE k0)
       ELSE LET arb == arbitrate(k.orders, k.current_price, spot)
                k1 == [k0 EXCEPT !.orders = arb.orders,
                                 !.current_price = arb.current_price]
            IN IF arb.transactions = <<>>
               THEN (IF should_exit(exit_vol) THEN exit(k1) ELSE k1)
               ELSE LET pdo == place_dual_offers(arb.orders, k.price_grid,
                                                 arb.transactions)
                        k2 == [k1 EXCEPT !.orders = pdo.orders,
                                         !.quote = @ + pdo.quote_change,
                                         !.base = @ + pdo.base_change]
                    IN IF pdo.err
                       THEN [k1 EXCEPT !.orders = pdo.orders, !.crashed = TRUE]
                       ELSE IF should_exit(exit_vol) THEN exit(k2) ELSE k2

\* update_kandel_state with the exit check moved before the inventory update:
\* exit re-allocates the inventory of before the fills, and the fills are
\* applied to what it set.
update_kandel_state_exit_before_fills(k, spot, window_vol, exit_vol) ==
    LET k0 == [k EXCEPT !.spot_price = spot, !.vol = window_vol]
    IN IF ~k.is_active THEN k0
       ELSE LET arb == arbitrate(k.orders, k.current_price, spot)
                k1 == [k0 EXCEPT !.orders = arb.orders,
                                 !.current_price = arb.current_price]
            IN IF arb.transactions = <<>>
               THEN (IF should_exit(exit_vol) THEN exit(k1) ELSE k1)
               ELSE LET pdo == place_dual_offers(arb.orders, k.price_grid,
                                                 arb.transactions)
                        k2 == IF should_exit(exit_vol)
                              THEN exit([k1 EXCEPT !.orders = pdo.orders])
                              ELSE [k1 EXCEPT !.orders = pdo.orders]
                    IN IF pdo.err
                       THEN [k1 EXCEPT !.orders = pdo.orders, !.crashed = TRUE]
                       ELSE [k2 EXCEPT !.quote = @ + pdo.quote_change,
                                       !.base = @ + pdo.base_change]

\* Kandel.update_kandel_state.  When place_dual_offers raises, the exception
\* leaves the call with the ladder as arbitrate and the offers placed so far
\* made it and the inventory untouched.
update_kandel_state(k, spot, window_vol, exit_vol) ==
    LET k0 == [k EXCEPT !.spot_price = spot, !.vol = window_vol]
    IN IF ~k.is_active THEN k0
       ELSE LET arb == arbitrate(k.orders, k.current_price, spot)
                k1 == [k0 EXCEPT !.orders = arb.orders,
                                 !.current_price = arb.current_price]
            IN IF arb.transactions = <<>>
               THEN (IF should_exit(exit_vol) THEN exit(k1) ELSE k1)
               ELSE LET pdo == place_dual_offers(arb.orders, k.price_grid,
                                                 arb.transactions)
                        k2 == [k1 EXCEPT !.orders = pdo.orders,
                                         !.quote = @ + pdo.quote_change,
                                         !.base = @ + pdo.base_change]
                    IN IF pdo.err
                       THEN [k1 EXCEPT !.orders = pdo.orders, !.crashed = TRUE]
                       ELSE IF should_exit(exit_vol) THEN exit(k2) ELSE k2

\* The record of a call: its name, its arguments, whether the controller was
\* Active when it was made, and what it returned.
Call(op, spot, window_vol, exit_vol) ==
    [op |-> op, spot |-> spot, window_vol |-> window_vol, exit_vol |-> exit_vol,
     was_active |-> FALSE, transactions |-> <<>>, fees |-> 0, answer |-> FALSE]

Init ==
    \E spot \in Spots, v \in Vols, exit_vol \in ExitVols :
        LET k == kandel_init(spot, v, exit_vol)
        IN /\ spot_price = k.spot_price
           /\ base = k.base
           /\ quote = k.quote
           /\ open_price = k.open_price
           /\ open_capital = k.open_capital
           /\ vol = k.vol
           /\ ticks_grid = k.ticks_grid
           /\ is_active = k.is_active
           /\ orders = k.orders
           /\ current_price = k.current_price
           /\ price_grid = k.price_grid
           /\ crashed = k.crashed
           /\ ret = Call("init", spot, v, exit_vol)
           /\ steps = 0

\* Some call can be made: no exception has ended the run, calls are left.
Running == ~crashed /\ steps < MaxSteps

Update ==
    /\ Running
    /\ \E spot \in Spots, window_vol \in Vols, exit_vol \in ExitVols :
          /\ Becomes(update_kandel_state(Self, spot, window_vol, exit_vol))
          /\ ret' = [Call("update", spot, window_vol, exit_vol) EXCEPT
                        !.was_active = is_active,
                        !.transactions = update_transactions(Self, spot)]
    /\ steps' = steps + 1

Rebalance ==
    /\ Running
    /\ Becomes(rebalance(Self))
    /\ ret' = [Call("rebalance", 0, 0, 0) EXCEPT
                  !.was_active = is_active, !.fees = rebalance_fees(Self)]
    /\ steps' = steps + 1

Exit ==
    /\ Running
    /\ Becomes(exit(Self))
    /\ ret' = [Call("exit", 0, 0, 0) EXCEPT !.was_active = is_active]
    /\ steps' = steps + 1

ShouldExit ==
    /\ Running
    /\ \E exit_vol \in ExitVols :
          ret' = [Call("should_exit", 0, 0, exit_vol) EXCEPT
                     !.was_active = is_active,
                     !.answer = should_exit(exit_vol)]
    /\ UNCHANGED <<kandel_vars, book_vars, crashed>>
    /\ steps' = steps + 1

Next == Update \/ Rebalance \/ Exit \/ ShouldExit

Spec == Init /\ [][Next]_vars

(* --------------------------- Backtest driver -------------------------- *)

\* The KandelState the driver yields for a step.
KandelState(b, q, transactions, fees) ==
    [base |-> b, quote |-> q, transactions |-> transactions,
     generated_fees |-> fees]

\* The driver rebalancing at every index whose exit volatility allows it, not
\* only at the multiples of the window.
generate_kandel_state_every_step(k, i, price, window_vol, current_exit_vol) ==
    LET updated == update_kandel_state(k, price, window_vol, current_exit_vol)
        rebalanced == /\ ~updated.crashed
                      /\ ~should_exit(current_exit_vol)
        after == IF rebalanced THEN rebalance(updated) ELSE updated
    IN [kandel |-> after,
        rebalanced |-> rebalanced,
        state |-> KandelState(after.base, after.quote, <<>>,
                              IF rebalanced THEN rebalance_fees(updated) ELSE 0)]

\* The driver yielding the balances it read before the rebalance.
generate_kandel_state_early_read(k, i, price, window_vol, current_exit_vol) ==
    LET updated == update_kandel_state(k, price, window_vol, current_exit_vol)
        rebalanced == /\ ~updated.crashed
                      /\ i % window = 0
                      /\ ~should_exit(current_exit_vol)
        after == IF rebalanced THEN rebalance(updated) ELSE updated
    IN [kandel |-> after,
        rebalanced |-> rebalanced,
        state |-> KandelState(updated.base, updated.quote, <<>>,
                              IF rebalanced THEN rebalance_fees(updated) ELSE 0)]

\* One iteration of KandelBacktester._generate_kandel_states, at index i of
\* the series: the controller after it, whether it rebalanced, and the state
\* it yields.  The local list transactions is created empty and never
\* assigned.  An exception in update_kandel_state leaves the loop before the
\* rebalance and the yield.
generate_kandel_state(k, i, price, window_vol, current_exit_vol) ==
    LET transactions == <<>>
        updated == update_kandel_state(k, price, window_vol, current_exit_vol)
        rebalanced == /\ ~updated.crashed
                      /\ i % window = 0
                      /\ ~should_exit(current_exit_vol)
        after == IF rebalanced THEN rebalance(updated) ELSE updated
    IN [kandel |-> after,
        rebalanced |-> rebalanced,
        state |-> KandelState(after.base, after.quote, transactions,
                              IF rebalanced THEN rebalance_fees(updated) ELSE 0)]

\* The record of a driver iteration: its index, the elements of the three
\* series it read, whether the controller was Active before it, the orders
\* its arbitrate call filled, whether it rebalanced, whether it yielded and
\* the state it yielded.
Iteration(op, i, price, window_vol, current_exit_vol) ==
    [op |-> op, i |-> i, spot |-> price, window_vol |-> window_vol,
     exit_vol |-> current_exit_vol, was_active |-> FALSE, filled |-> <<>>,
     rebalanced |-> FALSE, yielded |-> FALSE,
     state |-> KandelState(0, 0, <<>>, 0)]

\* An iteration of the driver's loop.  Element 0 of each series is the one
\* the controller was constructed with.
DriverStep ==
    /\ Running
    /\ \E price \in Spots, window_vol \in Vols, current_exit_vol \in ExitVols :
          /\ steps = 0 => /\ price = ret.spot
                          /\ window_vol = ret.window_vol
                          /\ current_exit_vol = ret.exit_vol
          /\ \E g \in {generate_kandel_state(Self, steps, price, window_vol,
                                            current_exit_vol)} :
                /\ Becomes(g.kandel)
                /\ ret' = [Iteration("step", steps, price, window_vol,
                                     current_exit_vol) EXCEPT
                              !.was_active = is_active,
                              !.filled = update_transactions(Self, price),
                              !.rebalanced = g.rebalanced,
                              !.yielded = ~g.kandel.crashed,
                              !.state = g.state]
    /\ steps' = steps + 1

\* The price series has an element at index steps and one of the volatility
\* series has none: .iloc raises IndexError before update_kandel_state is
\* called.  Element 0 of each was read by the constructor, so the index is at
\* least 1.
DriverIndexError ==
    /\ Running
    /\ steps >= 1
    /\ \E price \in Spots :
          ret' = Iteration("index_error", steps, price, 0, 0)
    /\ crashed' = TRUE
    /\ UNCHANGED <<kandel_vars, book_vars, steps>>

DriverNext == DriverStep \/ DriverIndexError

DriverSpec == Init /\ [][DriverNext]_vars

(* ----------------------------- the samples ----------------------------- *)

\* One element of the three series of a sample: the price, the window
\* volatility and the exit volatility at one index.
SampleInput(price, window_vol, current_exit_vol) ==
    [spot |-> price, window_vol |-> window_vol, exit_vol |-> current_exit_vol]

\* The elements the series of sample n are made of.  Sample 1 moves between
\* two prices on a wide grid; sample 2 also falls to a low price on a
\* narrower grid under an exit volatility above the threshold.
SampleInputs(n) ==
    IF n = 1
    THEN {SampleInput(8, 3, 0), SampleInput(16, 3, 0)}
    ELSE {SampleInput(8, 3, 0), SampleInput(4, 2, exit_vol_threshold + 1)}

\* The series a sample can be given: MaxSteps elements each.
SampleSeries(n) == [1 .. MaxSteps -> SampleInputs(n)]

\* get_backtester: the backtester of a sample constructs its own controller,
\* and the controller its own ladder, on element 0 of the sample's series.
get_backtester(series) ==
    kandel_init(series[1].spot, series[1].window_vol, series[1].exit_vol)

\* What a sample keeps of an iteration: the state yielded, the ladder the
\* state refers to, and whether the iteration raised instead.
SampleResult(g) ==
    [state |-> g.state, orders |-> g.kandel.orders, raised |-> g.kandel.crashed]

\* One iteration of a sample as it would go if the controllers shared one
\* ladder: the ladder the stepping sample leaves is the ladder of both.
run_sample_step_shared_ladder(kandels, n, i, input) ==
    CHOOSE r \in
        {[kandels |-> [m \in 1 .. 2 |->
                          IF m = n THEN g.kandel
                          ELSE [kandels[m] EXCEPT
                                   !.orders = g.kandel.orders,
                                   !.current_price = g.kandel.current_price]],
          result |-> SampleResult(g)] :
         g \in {generate_kandel_state(kandels[n], i, input.spot,
                                      input.window_vol, input.exit_vol)}} : TRUE

\* One iteration of sample n, at index i of its series, among the
\* controllers of the two samples: the iteration runs on the sample's own
\* controller and ladder, the other sample's are not touched.
run_sample_step(kandels, n, i, input) ==
    CHOOSE r \in
        {[kandels |-> [kandels EXCEPT ![n] = g.kandel],
          result |-> SampleResult(g)] :
         g \in {generate_kandel_state(kandels[n], i, input.spot,
                                      input.window_vol, input.exit_vol)}} : TRUE

\* run_multi_samples on two samples: each gets its series and its own
\* backtester.  The controller of sample 1 is kept in the controller
\* variables, that of sample 2 in ret.other; ret also holds the series, the
\* index each sample has reached, the results each has produced and the
\* order in which the samples have stepped.
SamplesInit ==
    \E series1 \in SampleSeries(1), series2 \in SampleSeries(2) :
        LET k == get_backtester(series1)
        IN /\ spot_price = k.spot_price
           /\ base = k.base
           /\ quote = k.quote
           /\ open_price = k.open_price
           /\ open_capital = k.open_capital
           /\ vol = k.vol
           /\ ticks_grid = k.ticks_grid
           /\ is_active = k.is_active
           /\ orders = k.orders
           /\ current_price = k.current_price
           /\ price_grid = k.price_grid
           /\ crashed = k.crashed
           /\ ret = [op |-> "samples", sample |-> 0,
                     other |-> get_backtester(series2),
                     series |-> <<series1, series2>>,
                     index |-> <<0, 0>>,
                     results |-> <<(<<>>), (<<>>)>>,
                     schedule |-> <<>>]
           /\ steps = 0

\* The controllers of the two samples.
SampleKandels == <<Self, ret.other>>

\* Sample n runs one iteration of its loop; a sample whose iteration raised
\* or whose series is used up runs no more.
SampleStep(n) ==
    /\ ret.index[n] < MaxSteps
    /\ ~SampleKandels[n].crashed
    /\ \E r \in {run_sample_step(SampleKandels, n, ret.index[n],
                                  ret.series[n][ret.index[n] + 1])} :
          /\ Becomes(r.kandels[1])
          /\ ret' = [ret EXCEPT !.sample = n,
                                !.other = r.kandels[2],
                                !.index[n] = @ + 1,
                                !.results[n] = Append(@, r.result),
                                !.schedule = Append(@, n)]
    /\ steps' = steps + 1

Sample1Step == SampleStep(1)

Sample2Step == SampleStep(2)

SamplesNext == Sample1Step \/ Sample2Step

SamplesSpec == SamplesInit /\ [][SamplesNext]_vars

(* ------------------------------- claims ------------------------------- *)

Bids(os) == SelectSeq(os, LAMBDA o : o.order_type = BID)
Asks(os) == SelectSeq(os, LAMBDA o : o.order_type = ASK)

\* Sum of price * qty, and of qty, over a sequence of orders.
Notional(os) == SeqSum([i \in 1 .. Len(os) |-> os[i].price * os[i].qty])
Quantity(os) == SeqSum([i \in 1 .. Len(os) |-> os[i].qty])

\* The orders of a ladder resting at a price.
At(os, price) == SelectSeq(os, LAMBDA o : o.price = price)

\* The step just taken is a call of update_kandel_state on an Active
\* controller and no exit follows the fills in it.
ActiveUpdateStep ==
    /\ steps' = steps + 1
    /\ ret'.op = "update"
    /\ is_active
    /\ ret'.exit_vol <= exit_vol_threshold

\* C1: after construction, every rebalance and every update step (arbitrate
\* followed by place_dual_offers on its fills), every resting Bid is priced
\* strictly below every resting Ask.
C1_NoSelfCross ==
    \A i, j \in 1 .. Len(orders) :
        orders[i].order_type = BID /\ orders[j].order_type = ASK
            => orders[i].price < orders[j].price

\* C1 witness: an update step has filled orders and replenished the other
\* side, and Bids and Asks both rest in the ladder.
C1_Witness ==
    /\ ret.op = "update"
    /\ ret.transactions # <<>>
    /\ ~crashed
    /\ Bids(orders) # <<>>
    /\ Asks(orders) # <<>>

\* C2: an update step of an Active controller in which the price falls through
\* k >= 1 resting Bids (and the exit volatility calls for no exit) completes,
\* removes each crossed Bid, leaves exactly one order, an Ask of the Bid's
\* quantity, one grid index above each of them, lowers quote by the sum of
\* price * qty of the crossed Bids and raises base by the sum of their
\* quantities.
C2_BidFillsReplenished ==
    [][LET crossed == SelectSeq(orders, LAMBDA o :
                          o.order_type = BID /\ o.price >= spot_price')
       IN (ActiveUpdateStep /\ spot_price' < current_price /\ crossed # <<>>)
          => /\ ~crashed'
             /\ Len(Asks(orders')) = Len(Asks(orders)) + Len(crossed)
             /\ Len(Bids(orders')) = Len(Bids(orders)) - Len(crossed)
             /\ \A n \in 1 .. Len(crossed) :
                   LET i == grid_index(price_grid, crossed[n].price)
                   IN /\ i >= 1 /\ i < Len(price_grid)
                      /\ At(Bids(orders'), crossed[n].price) = <<>>
                      /\ At(orders', price_grid[i + 1])
                            = <<Order(ASK, crossed[n].qty, price_grid[i + 1])>>
             /\ quote' = quote - Notional(crossed)
             /\ base' = base + Quantity(crossed)]_vars

\* C3: an update step of an Active controller in which the price rises through
\* k >= 1 resting Asks (and the exit volatility calls for no exit) completes,
\* removes each crossed Ask (price p, quantity q), leaves exactly one order, a
\* Bid of quantity q * p / p', one grid index below each of them (p' the price
\* there), raises quote by the sum of p * q and lowers base by the sum of q.
C3_AskFillsReplenished ==
    [][LET crossed == SelectSeq(orders, LAMBDA o :
                          o.order_type = ASK /\ o.price <= spot_price')
       IN (ActiveUpdateStep /\ spot_price' > current_price /\ crossed # <<>>)
          => /\ ~crashed'
             /\ Len(Bids(orders')) = Len(Bids(orders)) + Len(crossed)
             /\ Len(Asks(orders')) = Len(Asks(orders)) - Len(crossed)
             /\ \A n \in 1 .. Len(crossed) :
                   LET i == grid_index(price_grid, crossed[n].price)
                       p == crossed[n].price
                       q == crossed[n].qty
                   IN /\ i > 1
                      /\ At(Asks(orders'), p) = <<>>
                      /\ At(orders', price_grid[i - 1])
                            = <<Order(BID, (q * p) \div price_grid[i - 1],
                                      price_grid[i - 1])>>
                      /\ ((q * p) \div price_grid[i - 1]) * price_grid[i - 1] = q * p
             /\ quote' = quote + Notional(crossed)
             /\ base' = base - Quantity(crossed)]_vars

\* Prices a ladder can be matched against: every whole price up to the top of
\* the widest grid.
ArbPrices == 1 .. (MaxSpot * (MaxVol + 1))

\* The subsequence of s at the positions in I.
RECURSIVE PickFrom(_, _, _)
PickFrom(s, I, i) ==
    IF i > Len(s) THEN <<>>
    ELSE (IF i \in I THEN <<s[i]>> ELSE <<>>) \o PickFrom(s, I, i + 1)

Pick(s, I) == PickFrom(s, I, 1)

Within(a, b, tol) == a - b <= tol /\ b - a <= tol

\* C4: for every reachable ladder and every price, arbitrate returns exactly
\* the Bids priced at or above the spot when the spot is below the reference
\* price, exactly the Asks priced at or below it when it is above, nothing
\* when it is equal, and leaves every other order resting as it was.
C4_ArbitrateFills ==
    \A spot \in ArbPrices :
        LET hit == {i \in 1 .. Len(orders) :
                       \/ /\ spot < current_price
                          /\ orders[i].order_type = BID
                          /\ orders[i].price >= spot
                       \/ /\ spot > current_price
                          /\ orders[i].order_type = ASK
                          /\ orders[i].price <= spot}
            r == arbitrate(orders, current_price, spot)
        IN /\ r.transactions = Pick(orders, hit)
           /\ r.orders = Pick(orders, (1 .. Len(orders)) \ hit)

\* C4 witness: an update step on a falling price has filled Bids, one of them
\* priced exactly at the spot, and Asks rest in the ladder.
C4_Witness ==
    /\ ret.op = "update"
    /\ ret.was_active
    /\ ~crashed
    /\ ret.transactions # <<>>
    /\ \A n \in 1 .. Len(ret.transactions) :
          ret.transactions[n].order_type = BID /\ ret.transactions[n].price >= ret.spot
    /\ \E n \in 1 .. Len(ret.transactions) : ret.transactions[n].price = ret.spot
    /\ Asks(orders) # <<>>

\* C5: for every reachable ladder and every price p, a second arbitrate(p)
\* right after a first returns no transaction and leaves the ladder as the
\* first left it.
C5_ArbitrateIdempotent ==
    \A p \in ArbPrices :
        LET first == arbitrate(orders, current_price, p)
            second == arbitrate(first.orders, first.current_price, p)
        IN /\ second.transactions = <<>>
           /\ second.orders = first.orders
           /\ second.current_price = first.current_price

\* C5 witness: the arbitrate call of an update step has filled orders at the
\* step's spot, a second call at that spot fills nothing, and the ladder still
\* holds orders that a call at another price would fill.
C5_Witness ==
    /\ ret.op = "update"
    /\ ret.was_active
    /\ ret.transactions # <<>>
    /\ ~crashed
    /\ arbitrate(orders, current_price, ret.spot).transactions = <<>>
    /\ \E p \in ArbPrices :
          /\ arbitrate(orders, current_price, p).transactions # <<>>
          /\ arbitrate(orders, current_price, p).orders # <<>>

\* C6: arbitrate(spot) leaves the reference price equal to spot, whether the
\* price fell, rose or stayed and whether or not an order was filled; so after
\* every update step made on an Active controller the ladder's reference
\* price is the spot of that step.
C6_ReferencePriceIsSpot ==
    /\ \A p \in ArbPrices : arbitrate(orders, current_price, p).current_price = p
    /\ (ret.op = "update" /\ ret.was_active) => current_price = ret.spot

\* C6 witness: an update step moved the price away from the price the ladder
\* was built at and filled nothing.
C6_Witness ==
    /\ ret.op = "update"
    /\ ret.was_active
    /\ ret.transactions = <<>>
    /\ orders # <<>>
    /\ ret.spot # open_price
    /\ current_price = ret.spot

\* C7: every call of exit() completes and leaves no resting order and the
\* controller Exited.
C7_ExitClearsLadder ==
    ret.op = "exit" => (orders = <<>> /\ ~is_active /\ ~crashed)

\* C7 witness: exit() was called on an Active controller whose grid has room
\* for a Bid, a hole and an Ask.
C7_Witness ==
    /\ ret.op = "exit"
    /\ ret.was_active
    /\ Len(ticks_grid) >= 3
    /\ orders = <<>>

\* C8: with V = quote + base * spot before the call, exit() leaves quote =
\* V/4 and base * spot = 3V/4 when spot/open_price - 1 is above the asymmetric
\* threshold, quote = 3V/4 and base * spot = V/4 when it is below minus the
\* threshold, quote = base * spot = V/2 otherwise (at plus or minus the
\* threshold included); each up to the rounding of its divisions.
C8_ExitAllocation ==
    [][(steps' = steps + 1 /\ ret'.op = "exit") =>
        LET V == quote + base * spot_price
            s == spot_price
            up == (s - open_price) * Scale > asymmetric_exit_threshold * open_price
            down == (s - open_price) * Scale < -asymmetric_exit_threshold * open_price
        IN IF up
           THEN /\ Within(4 * quote', V, 4)
                /\ Within(4 * base' * s, 3 * V, 4 * s + 12)
           ELSE IF down
           THEN /\ Within(4 * quote', 3 * V, 4)
                /\ Within(4 * base' * s, V, 4 * s + 12)
           ELSE /\ Within(2 * quote', V, 2)
                /\ Within(2 * base' * s, V, 2 * s + 2)]_vars

\* C8 witness: exit() was called with spot/open_price - 1 exactly at the
\* threshold and left a 50/50 position.
C8_Witness ==
    /\ ret.op = "exit"
    /\ (spot_price - open_price) * Scale = asymmetric_exit_threshold * open_price
    /\ quote > 0
    /\ Within(base * spot_price, quote, spot_price)

\* C9: should_exit(exit_vol) answers exit_vol > exit_vol_threshold whatever the
\* controller's state, a call of it changes nothing, and an update step of an
\* Active controller that completes exits exactly when that answer is true.
C9_ShouldExitPure ==
    [][/\ (steps' = steps + 1 /\ ret'.op = "should_exit") =>
            /\ ret'.answer = (ret'.exit_vol > exit_vol_threshold)
            /\ UNCHANGED <<kandel_vars, book_vars, crashed>>
       /\ (steps' = steps + 1 /\ ret'.op = "update" /\ is_active /\ ~crashed') =>
            (is_active' = ~(ret'.exit_vol > exit_vol_threshold))]_vars

\* C9 witness: should_exit was asked at exactly the threshold and answered no.
C9_Witness ==
    /\ ret.op = "should_exit"
    /\ ret.exit_vol = exit_vol_threshold
    /\ ret.answer = FALSE

\* C10: every call of rebalance(), made Active or Exited, completes and leaves
\* open_price equal to the spot price and the controller Active.
C10_RebalanceReopens ==
    ret.op = "rebalance" => (open_price = spot_price /\ is_active /\ ~crashed)

\* C10 witness: rebalance() was called on an Exited controller and left it
\* Active with open_price at the spot.
C10_Witness ==
    /\ ret.op = "rebalance"
    /\ ~ret.was_active
    /\ is_active
    /\ open_price = spot_price

\* C11: the fee every rebalance() returns is >= 0, and it is 0 whenever the
\* capital the call records (capital less the fee) is no more than the
\* open_capital the previous rebalance recorded.
C11_FeeNonNegative ==
    [][(steps' = steps + 1 /\ ret'.op = "rebalance") =>
          /\ ret'.fees >= 0
          /\ (open_capital' <= open_capital => ret'.fees = 0)]_vars

\* C11 witness: a rebalance() charged a fee on a gain.
C11_Witness ==
    /\ ret.op = "rebalance"
    /\ ret.fees > 0
    /\ open_capital > 0

\* C12: rebalance() takes capital = quote + base * spot, returns the fee rate
\* times (capital - open_capital) when capital is above open_capital and 0
\* otherwise, and sets quote to half the capital less the fee, base to that
\* quote converted at the spot and open_capital to the capital less the fee,
\* lower than before when the capital fell.
C12_RebalanceFormula ==
    [][(steps' = steps + 1 /\ ret'.op = "rebalance") =>
          LET capital == quote + base * spot_price
              fee == IF capital > open_capital
                     THEN ((capital - open_capital) * performance_fees_pct) \div 100
                     ELSE 0
          IN /\ ret'.fees = fee
             /\ quote' = (capital - fee) \div 2
             /\ base' = ((capital - fee) \div 2) \div spot_price
             /\ open_capital' = capital - fee
             /\ (capital < open_capital => open_capital' < open_capital)]_vars

\* C12 witness: a rebalance() after a loss has lowered open_capital below the
\* initial capital without a fee, and after an update to some higher spot the
\* next rebalance() charges a fee while the capital is still below the initial
\* capital.
C12_Witness ==
    /\ ret.op = "rebalance"
    /\ ret.fees = 0
    /\ open_capital < initial_capital
    /\ \E spot \in Spots :
          LET k == update_kandel_state(Self, spot, vol, 0)
          IN /\ ~k.crashed
             /\ rebalance_fees(k) > 0
             /\ k.quote + k.base * k.spot_price < initial_capital

\* C13: a controller constructed with an exit volatility above the threshold
\* starts Exited with an empty ladder; constructed with an exit volatility at
\* or below the threshold it starts Active with the ladder build_book makes of
\* the initial capital on the grid around the initial spot.
C13_ConstructedState ==
    ret.op = "init" =>
        IF ret.exit_vol > exit_vol_threshold
        THEN ~is_active /\ orders = <<>>
        ELSE /\ is_active
             /\ price_grid = grid_prices(update_ticks_grid(ret.spot, ret.window_vol))
             /\ orders = build_book(initial_capital, price_grid, ret.spot)
             /\ quote = initial_capital \div 2
             /\ open_capital = initial_capital

\* C13 witness: a controller constructed with the exit volatility exactly at
\* the threshold is Active with Bids and Asks resting.
C13_Witness ==
    /\ ret.op = "init"
    /\ ret.exit_vol = exit_vol_threshold
    /\ is_active
    /\ Bids(orders) # <<>>
    /\ Asks(orders) # <<>>

\* C14: an update step of an Exited controller stores the spot price and the
\* volatility and leaves quote, base, the ladder (empty), open_price,
\* open_capital and the Exited flag as they were, whatever its inputs; and a
\* step that finds the controller Exited and leaves it Active is a rebalance.
C14_ExitedUpdateFrame ==
    [][/\ (steps' = steps + 1 /\ ret'.op = "update" /\ ~is_active) =>
            /\ spot_price' = ret'.spot
            /\ vol' = ret'.window_vol
            /\ orders = <<>>
            /\ ~is_active'
            /\ UNCHANGED <<quote, base, open_price, open_capital, ticks_grid,
                           orders, current_price, price_grid, crashed>>
       /\ (steps' = steps + 1 /\ ~is_active /\ is_active') =>
            ret'.op = "rebalance"]_vars

\* C14 witness: an update step of an Exited controller was given a spot other
\* than the open price and an exit volatility above the threshold.
C14_Witness ==
    /\ ret.op = "update"
    /\ ~ret.was_active
    /\ ret.exit_vol > exit_vol_threshold
    /\ ret.spot # open_price
    /\ ~is_active
    /\ quote > 0

\* The step just taken is an iteration of the driver's loop.
DriverIteration == steps' = steps + 1 /\ ret'.op = "step"

\* The step just taken is an iteration of the driver that yielded a state.
DriverYield == DriverIteration /\ ret'.yielded

\* What C15 says of the iteration just made: it is the one at index steps, it
\* called update_kandel_state with element i of the series, and a rebalance()
\* followed that update if and only if i is a multiple of the window and the
\* exit volatility of the step is not above the threshold.
RebalanceCadence ==
    LET due == ret'.i % window = 0 /\ ret'.exit_vol <= exit_vol_threshold
    IN /\ ret'.i = steps
       /\ spot_price' = ret'.spot
       /\ vol' = ret'.window_vol
       /\ ret'.rebalanced = due
       /\ due => /\ is_active'
                 /\ open_price' = ret'.spot
                 /\ current_price' = ret'.spot
                 /\ orders' = build_book(open_capital', price_grid', ret'.spot)
       /\ ~due => /\ open_price' = open_price
                  /\ open_capital' = open_capital
                  /\ ticks_grid' = ticks_grid

\* C15: every iteration i of a driver run calls update_kandel_state once with
\* element i of the series, in index order, and rebalance() is called after
\* that update if and only if i is a multiple of the window and the exit
\* volatility of the step is not above the threshold.
C15_RebalanceCadence == [][DriverIteration => RebalanceCadence]_vars

\* The cadence of C15 on the iterations that yield a state.
RebalanceCadenceOnYield == [][DriverYield => RebalanceCadence]_vars

\* C16: the fee a driver iteration records is the value its rebalance()
\* returned when it rebalanced and 0 when it did not, and the quote and base
\* it records are the controller's balances at the end of the iteration.
C16_RecordedFeeAndBalances ==
    [][DriverYield =>
          LET updated == update_kandel_state(Self, ret'.spot, ret'.window_vol,
                                             ret'.exit_vol)
              capital == updated.quote + updated.base * updated.spot_price
          IN /\ ret'.state.quote = quote'
             /\ ret'.state.base = base'
             /\ ret'.rebalanced =>
                   /\ ret'.state.generated_fees = rebalance_fees(updated)
                   /\ open_capital' = capital - ret'.state.generated_fees
             /\ ~ret'.rebalanced => ret'.state.generated_fees = 0]_vars

\* C16 witness: an iteration recorded a fee above 0 and balances that are
\* those the rebalance left, half the capital in quote.
C16_Witness ==
    /\ ret.op = "step"
    /\ ret.yielded
    /\ ret.rebalanced
    /\ ret.filled # <<>>
    /\ ret.state.generated_fees > 0
    /\ ret.state.quote = open_capital \div 2

\* C17: the fill list a driver iteration yields holds exactly the orders its
\* arbitrate call filled.
C17_FillListRecorded ==
    [][DriverYield =>
          ret'.state.transactions = update_transactions(Self, ret'.spot)]_vars

\* C18: a driver run never fails for a missing element of a volatility series
\* once an iteration has been executed.
C18_MisalignedFailsAtSetup ==
    (crashed /\ ret.op = "index_error") => steps = 0

\* C19: a call of build_book with capital <= 0, a grid of fewer than two
\* points or a reference price <= 0 fails: the constructor and rebalance()
\* raise when they pass it such arguments, and every exit(), which passes it
\* capital 0 and an empty grid, raises.
C19_BuildBookRejects ==
    /\ (/\ ret.op \in {"init", "rebalance"}
        /\ (open_capital <= 0 \/ Len(ticks_grid) < 2 \/ current_price <= 0))
          => crashed
    /\ (ret.op = "init" /\ ret.exit_vol > exit_vol_threshold) => crashed
    /\ ret.op = "exit" => crashed

\* The bound of what the divisions of build_book drop: up to two units of
\* quantity an order, valued at the price the claim values the order at.
BuildBookRounding(os, reference_price) ==
    2 * (SeqSum([i \in 1 .. Len(Bids(os)) |-> Bids(os)[i].price])
         + Len(Asks(os)) * reference_price)

\* The Bids of a ladder valued at their own price plus its Asks valued at the
\* reference price.
BookValue(os, reference_price) ==
    Notional(Bids(os)) + Quantity(Asks(os)) * reference_price

\* C20: right after the constructor or rebalance() has built the ladder from
\* a capital > 0 on a grid of at least two points, the quantity * price of
\* its Bids plus the quantity * reference price of its Asks is the capital, up
\* to the rounding of the divisions; and so is it for the ladder build_book
\* makes of that capital on every prefix of two or more points of the grid.
C20_BuildBookCapital ==
    (/\ ret.op \in {"init", "rebalance"}
     /\ is_active
     /\ open_capital > 0
     /\ Len(price_grid) >= 2) =>
        /\ orders = build_book(open_capital, price_grid, current_price)
        /\ BookValue(orders, current_price) <= open_capital
        /\ open_capital - BookValue(orders, current_price)
              <= BuildBookRounding(orders, current_price)
        /\ \A n \in 2 .. Len(price_grid) :
              LET os == build_book(open_capital, SubSeq(price_grid, 1, n),
                                   current_price)
              IN /\ BookValue(os, current_price) <= open_capital
                 /\ open_capital - BookValue(os, current_price)
                       <= BuildBookRounding(os, current_price)

\* C20 witness: rebalance() has built a ladder of Bids and Asks on a five-point
\* grid from a capital other than the initial one, the reference price strictly
\* between two grid prices.
C20_Witness ==
    /\ ret.op = "rebalance"
    /\ Len(price_grid) = 5
    /\ Len(orders) = 4
    /\ open_capital > 0
    /\ open_capital # initial_capital
    /\ \A i \in 1 .. Len(price_grid) : price_grid[i] # current_price

\* The constructor or rebalance() has just built the ladder.
Built == ret.op \in {"init", "rebalance"} /\ is_active

\* Distance between two prices.
Dist(a, b) == IF a >= b THEN a - b ELSE b - a

\* The grid points no order rests at.
HolePrices == Range(price_grid) \ {orders[i].price : i \in 1 .. Len(orders)}

\* The tick of an order and of the reference price.
TickOf(price) == price_to_tick(price, 1)

\* C21: the ladder build_book leaves is the one it makes of its arguments, no
\* order of the previous ladder in it: exactly len(grid) - 1 orders, each on a
\* grid point of its own, Bids on the grid points below the reference price
\* and Asks on the grid points above it, and no order on the grid point
\* nearest the reference price.
C21_BuildBookReplaces ==
    (Built /\ Len(price_grid) >= 1) =>
        /\ orders = build_book(open_capital, price_grid, current_price)
        /\ Len(orders) = Len(price_grid) - 1
        /\ \A i \in 1 .. Len(orders) :
              /\ orders[i].price \in Range(price_grid)
              /\ \A j \in 1 .. Len(orders) :
                    orders[i].price = orders[j].price => i = j
              /\ orders[i].order_type = BID => orders[i].price < current_price
              /\ orders[i].order_type = ASK => orders[i].price > current_price
        /\ \A h \in HolePrices : \A i \in 1 .. Len(price_grid) :
              Dist(h, current_price) <= Dist(price_grid[i], current_price)

\* What of C21 every build satisfies: the count, one order a grid point, the
\* Bids below the reference price.
BuildBookShape ==
    (Built /\ Len(price_grid) >= 1) =>
        /\ orders = build_book(open_capital, price_grid, current_price)
        /\ Len(orders) = Len(price_grid) - 1
        /\ \A i \in 1 .. Len(orders) :
              /\ orders[i].price \in Range(price_grid)
              /\ \A j \in 1 .. Len(orders) :
                    orders[i].price = orders[j].price => i = j
              /\ orders[i].order_type = BID => orders[i].price < current_price

\* C22 as stated: in every ladder state, every order whose tick is below the
\* tick of the reference price is a Bid and every order whose tick is at or
\* above it is an Ask.
C22_TickPartitionAtOrAbove ==
    \A i \in 1 .. Len(orders) :
        /\ TickOf(orders[i].price) < TickOf(current_price)
              => orders[i].order_type = BID
        /\ TickOf(orders[i].price) >= TickOf(current_price)
              => orders[i].order_type = ASK

\* C22 amended: in every ladder state, every order whose tick is below the
\* tick of the reference price is a Bid and every order whose tick is above
\* it is an Ask; an order on the tick of the reference price is a Bid or an
\* Ask.
C22_TickPartition ==
    \A i \in 1 .. Len(orders) :
        /\ TickOf(orders[i].price) < TickOf(current_price)
              => orders[i].order_type = BID
        /\ TickOf(orders[i].price) > TickOf(current_price)
              => orders[i].order_type = ASK

\* C22 witness: an update step has filled Bids on a falling price and a Bid
\* rests on the tick the reference price fell into, below an Ask.
C22_Witness ==
    /\ ret.op = "update"
    /\ ret.was_active
    /\ ret.transactions # <<>>
    /\ ~crashed
    /\ \E i \in 1 .. Len(orders) :
          /\ orders[i].order_type = BID
          /\ TickOf(orders[i].price) = TickOf(current_price)
    /\ Asks(orders) # <<>>

\* The new orders add_order is tried with: either side, at every price.
NewOrders == {Order(t, Scale, p) : t \in {BID, ASK}, p \in ArbPrices}

\* A ladder sorted by price; a ladder with at most one order a price.
SortedByTick(os) ==
    \A i, j \in 1 .. Len(os) : i < j => os[i].price <= os[j].price
OnePerTick(os) ==
    \A i, j \in 1 .. Len(os) : os[i].price = os[j].price => i = j

\* C23: on every ladder of the program (sorted, one order a tick, the empty
\* ladder among them) and for every new order, add_order completes and leaves
\* the ladder sorted by tick with no two orders on a tick, of the same side or
\* not.
C23_AddOrderKeepsOrder ==
    (SortedByTick(orders) /\ OnePerTick(orders)) =>
        \A new_order \in NewOrders :
            LET added == add_order(orders, new_order)
            IN /\ ~added.err
               /\ SortedByTick(added.orders)
               /\ OnePerTick(added.orders)

\* What of C23 holds on every ladder that is not empty: the ladder stays
\* sorted and two orders share a tick only when the new order came on the tick
\* of a resting order of the other side.
AddOrderKeepsOrderNonEmpty ==
    (SortedByTick(orders) /\ OnePerTick(orders) /\ orders # <<>>) =>
        \A new_order \in NewOrders :
            LET added == add_order(orders, new_order)
            IN /\ ~added.err
               /\ SortedByTick(added.orders)
               /\ \A i, j \in 1 .. Len(added.orders) :
                     (i # j /\ added.orders[i].price = added.orders[j].price)
                        => /\ added.orders[i].order_type # added.orders[j].order_type
                           /\ added.orders[i].price = new_order.price
                           /\ At(orders, new_order.price) # <<>>

\* The effect C24 gives add_order on a ladder: a merge into the resting order
\* of the same tick and side, or one more order, the new one, at its tick;
\* the quantity of the side grown by the new quantity and nothing else
\* changed.
AddOrderEffect(os, new_order, added) ==
    LET same == {i \in 1 .. Len(os) :
                    /\ os[i].price = new_order.price
                    /\ os[i].order_type = new_order.order_type}
        Side(l) == SelectSeq(l, LAMBDA o : o.order_type = new_order.order_type)
        Other(l) == SelectSeq(l, LAMBDA o : o.order_type # new_order.order_type)
        Elsewhere(l) == SelectSeq(l, LAMBDA o :
                            ~(/\ o.price = new_order.price
                              /\ o.order_type = new_order.order_type))
    IN /\ same # {} =>
            /\ Len(added) = Len(os)
            /\ \A i \in same : added[i].qty = os[i].qty + new_order.qty
       /\ same = {} =>
            /\ Len(added) = Len(os) + 1
            /\ \E i \in 1 .. Len(added) : added[i] = new_order
       /\ Quantity(Side(added)) = Quantity(Side(os)) + new_order.qty
       /\ Other(added) = Other(os)
       /\ Elsewhere(added) = Elsewhere(os)

\* C24: on every ladder of the program and for every new order, add_order
\* takes effect: it merges the quantity into a resting order of the same tick
\* and side, or else adds the order at its tick; the resting quantity of the
\* side grows by the new quantity and no other order changes.
C24_AddOrderTakesEffect ==
    \A new_order \in NewOrders :
        LET added == add_order(orders, new_order)
        IN /\ ~added.err
           /\ AddOrderEffect(orders, new_order, added.orders)

\* C24 on the ladders that are not empty.
AddOrderTakesEffectNonEmpty ==
    orders # <<>> =>
        \A new_order \in NewOrders :
            LET added == add_order(orders, new_order)
            IN /\ ~added.err
               /\ AddOrderEffect(orders, new_order, added.orders)

\* ---------------------------------------------------------------------------
\* C25. The tick grid.

\* A grid of odd length whose ticks strictly increase (so none is repeated).
OddIncreasing(grid) ==
    /\ Len(grid) % 2 = 1
    /\ \A i \in 1 .. (Len(grid) - 1) : grid[i] < grid[i + 1]
    /\ Cardinality(Range(grid)) = Len(grid)

\* The ticks np.linspace gives for a spot price and a volatility, before they
\* are deduplicated.
LinspaceTicks(spot, v) ==
    linspace(price_to_tick(spot, range_multiplier(v)),
             price_to_tick(spot * range_multiplier(v), 1),
             n_points * 2 + 1)

\* C25: the tick grid computed by _update_ticks_grid, at construction and at
\* every rebalance, has odd length, strictly increasing ticks and no tick
\* twice; the controller's grid is the grid so computed after construction
\* and after a rebalance, and is such a grid in every state.
C25_GridOddIncreasing ==
    /\ OddIncreasing(ticks_grid)
    /\ ret.op \in {"init", "rebalance"} =>
            ticks_grid = update_ticks_grid(spot_price, vol)

\* A rebalance whose five linspace ticks hold four different values: the
\* duplicate is removed and the last of the four dropped.
C25_Witness ==
    /\ ret.op = "rebalance"
    /\ Cardinality(Range(LinspaceTicks(spot_price, vol))) = 4
    /\ Len(ticks_grid) = 3

\* ---------------------------------------------------------------------------
\* C26. The grid at construction.

\* The grids of tests/test_kandel.py, between their first and last ticks:
\* the values are evenly spaced and cut down, not cut toward zero.
GoldenGrids ==
    /\ linspace(-194875, -194555, n_points * 2 + 1)
            = <<-194875, -194795, -194715, -194635, -194555>>
    /\ linspace(-161, 160, n_points * 2 + 1) = <<-161, -81, -1, 79, 160>>

\* The different ticks of a linspace, without the largest when their number
\* is even.
KeptTicks(ticks) ==
    LET S == Range(ticks)
    IN IF Cardinality(S) % 2 = 1
       THEN S
       ELSE {t \in S : \E u \in S : u > t}

\* C26 as stated: the grid at construction is the list of n_points * 2 + 1
\* ticks evenly spaced, rounded down, from the tick of spot / range to the
\* tick of spot * range, and the grids of the tests are the ones listed.
C26_GridIsLinspace ==
    /\ GoldenGrids
    /\ ret.op = "init" =>
            /\ Len(ticks_grid) = n_points * 2 + 1
            /\ ticks_grid = LinspaceTicks(spot_price, vol)

\* C26, amended: the grid at construction holds the different ticks among
\* those n_points * 2 + 1 evenly spaced ticks, in increasing order, without
\* the largest when their number is even; it is the whole list when the
\* ticks all differ, as in the grids of the tests.
C26_GridIsLinspaceDeduplicated ==
    /\ GoldenGrids
    /\ ret.op = "init" =>
            /\ Range(ticks_grid) = KeptTicks(LinspaceTicks(spot_price, vol))
            /\ \A i \in 1 .. (Len(ticks_grid) - 1) :
                    ticks_grid[i] < ticks_grid[i + 1]
            /\ Cardinality(Range(LinspaceTicks(spot_price, vol)))
                        = n_points * 2 + 1
                    => ticks_grid = LinspaceTicks(spot_price, vol)

\* A controller constructed on five different ticks.
C26_Witness ==
    /\ ret.op = "init"
    /\ Len(ticks_grid) = n_points * 2 + 1
    /\ ticks_grid = LinspaceTicks(spot_price, vol)

\* ---------------------------------------------------------------------------
\* C27. The tick of a price.

\* price num / den lies in the tick t: tick_to_price(t) <= price <
\* tick_to_price(t + 1).
InTick(num, den, t) ==
    /\ den * tick_to_price(t) <= num
    /\ num < den * tick_to_price(t + 1)

OneIndexFrom(side, i) == IF side = BID THEN i + 1 ELSE i - 1

\* The side opposite to a side.
Opposite(side) == IF side = BID THEN ASK ELSE BID

RECURSIVE RunAlone(_, _)
RunAlone(series, n) ==
    IF n = 0
    THEN [kandel |-> get_backtester(series), results |-> <<>>]
    ELSE CHOOSE r \in
            {IF prev.kandel.crashed THEN prev
             ELSE CHOOSE a \in
                    {[kandel |-> g.kandel,
                      results |-> Append(prev.results, SampleResult(g))] :
                     g \in {generate_kandel_state(
                                prev.kandel, n - 1, series[n].spot,
                                series[n].window_vol, series[n].exit_vol)}} : TRUE :
             prev \in {RunAlone(series, n - 1)}} : TRUE

FillAndExitStep ==
    /\ ret'.op = "update"
    /\ is_active
    /\ ret'.transactions # <<>>
    /\ ret'.exit_vol > exit_vol_threshold

\* C30: in an update of an Active controller arbitrate comes first, then the
\* replenishment and the inventory update for the fills, then the exit
\* check.  When the step fills orders under an exit volatility above the
\* threshold, exit re-allocates the inventory that already holds the fills
\* at the new spot price, and the ladder, dual offers included, is cleared;
\* if the replenishment raises, the call ends there, before the inventory
\* update and the exit check.
C30_FillsThenExit ==
    [][FillAndExitStep
        => LET filled == ret'.transactions
               sign == IF filled[1].order_type = BID THEN 1 ELSE -1
               quote_filled == quote - sign * Notional(filled)
               base_filled == base + sign * Quantity(filled)
           IN IF crashed'
              THEN /\ is_active'
                   /\ quote' = quote /\ base' = base
                   /\ orders' = arbitrate(orders, current_price,
                                          spot_price').orders
              ELSE /\ ~is_active'
                   /\ quote' = exit_quote(quote_filled, base_filled,
                                          spot_price', open_price)
                   /\ base' = exit_base(quote_filled, base_filled,
                                        spot_price', open_price)
                   /\ orders' = <<>>]_vars

\* An update has filled orders and exited, and the inventory exit set is
\* not the one it would have set from the inventory of before the fills:
\* the capital of the exit counts the fills.
C30_Witness ==
    /\ ret.op = "update"
    /\ ret.was_active /\ ~is_active /\ ~crashed
    /\ ret.transactions # <<>>
    /\ ret.exit_vol > exit_vol_threshold
    /\ orders = <<>>
    /\ Notional(ret.transactions) # Quantity(ret.transactions) * spot_price

\* ---------------------------------------------------------------------------
\* C31. The inventory behind the ladder.

\* The balances are those the resting orders need, up to the rounding of the
\* divisions that sized the orders of the grid: quote is the price * qty of
\* the Bids and base the qty of the Asks.
InventoryBacksLadder ==
    /\ quote >= 0 /\ base >= 0
    /\ quote - Notional(Bids(orders)) \in 0 .. (2 * SeqSum(price_grid) + 1)
    /\ base - Quantity(Asks(orders)) \in 0 .. (Len(price_grid) + 1)

\* C31: whenever the controller is Active (after construction, after every
\* rebalance and after every update step), its quote balance is the sum of
\* price * qty over the resting Bids and its base balance the sum of qty over
\* the resting Asks, so neither is negative and no order is unbacked.
C31_InventoryBacksLadder == is_active => InventoryBacksLadder

\* The same on a ladder built on a grid of three or more points, after calls
\* that did not raise.
InventoryBacksBuiltLadder ==
    (is_active /\ ~crashed /\ Len(price_grid) >= 3) => InventoryBacksLadder

\* ---------------------------------------------------------------------------
\* C32. The shape of the ladder.

\* The ladder has one order on every grid index but one, the hole, Bids on
\* the indexes below the hole and Asks on those above.
HoleLadder ==
    /\ Len(orders) = Len(price_grid) - 1
    /\ \E hole \in 1 .. Len(price_grid) :
          /\ \A i \in 1 .. (hole - 1) :
                /\ orders[i].price = price_grid[i]
                /\ orders[i].order_type = BID
          /\ \A i \in (hole + 1) .. Len(price_grid) :
                /\ orders[i - 1].price = price_grid[i]
                /\ orders[i - 1].order_type = ASK

\* C32: whenever the controller is Active, the ladder holds exactly
\* len(grid) - 1 orders, one on every grid index except a single hole, all
\* Bids on indexes below the hole and all Asks above it (so no Ask rests on
\* the first grid index, no Bid on the last, and a replenishment finds its
\* grid index free and inside the grid).
C32_HoleLadder == is_active => HoleLadder

\* The same after calls that did not raise.
HoleLadderUnlessRaised == (is_active /\ ~crashed) => HoleLadder

\* ---------------------------------------------------------------------------
\* C33. The capital through an exit.

\* The capital V' after is the capital V before, less at most the rounding
\* of the divisions of exit() at the spot price.
CapitalConserved(V, V_after, spot) == V - V_after \in 0 .. (spot + 3)

\* C33: exit() conserves the mark-to-market capital: quote + base * spot
\* right after exit() is quote + base * spot right before it, in each of
\* its three branches, whether exit() is called directly or by an update
\* whose exit volatility is above the threshold (the inventory before it
\* then holds the fills of that update).
C33_ExitConservesCapital ==
    [][/\ ret'.op = "exit" =>
            CapitalConserved(quote + base * spot_price,
                             quote' + base' * spot_price', spot_price')
       /\ (ret'.op = "update" /\ is_active /\ ~is_active') =>
            LET filled == ret'.transactions
                sign == IF filled = <<>> THEN 0
                        ELSE IF filled[1].order_type = BID THEN 1 ELSE -1
                quote_filled == quote - sign * Notional(filled)
                base_filled == base + sign * Quantity(filled)
            IN CapitalConserved(quote_filled + base_filled * spot_price',
                                quote' + base' * spot_price', spot_price')]_vars

\* exit() was called on an Active controller whose spot price had risen
\* above the open price by more than the asymmetric threshold, and left a
\* quarter of the capital in quote.
C33_Witness ==
    /\ ret.op = "exit"
    /\ ret.was_active
    /\ open_close_ratio(spot_price, open_price) > asymmetric_exit_threshold
    /\ quote > 0
    /\ base * spot_price > 2 * quote

\* ---------------------------------------------------------------------------
\* C34. The reference price of an Active controller.

\* C34: whenever the controller is Active after construction, an update or a
\* rebalance, the ladder's reference price is the controller's spot price;
\* and the ladder a rebalance leaves, re-entering from Exited included, is
\* built around the spot price of the rebalance, not around the reference
\* price the ladder stored before.
C34_ReferencePriceIsSpotWhenActive ==
    is_active =>
        /\ current_price = spot_price
        /\ ret.op = "rebalance" =>
                orders = build_book(open_capital, price_grid, spot_price)

\* A rebalance has re-entered from Exited and built a ladder with Asks,
\* whose quantity is sized by the reference price.
C34_Witness ==
    /\ ret.op = "rebalance"
    /\ ~ret.was_active
    /\ is_active
    /\ Asks(orders) # <<>>
    /\ current_price = spot_price

\* ---------------------------------------------------------------------------
\* C35. A step under a high exit volatility.

\* What C35 says of the iteration just made: under an exit volatility above
\* the threshold it leaves the controller Exited with an empty ladder and
\* does not rebalance; the controller is Active after it only under an exit
\* volatility at or below the threshold.
ExitedAfterHighVol ==
    /\ ret'.exit_vol > exit_vol_threshold =>
            /\ ~is_active'
            /\ orders' = <<>>
            /\ ~ret'.rebalanced
    /\ is_active' => ret'.exit_vol <= exit_vol_threshold

\* C35: after every driver step i whose exit volatility is above the
\* threshold the controller is Exited with an empty ladder, whatever its
\* state before the step and whether or not i is a multiple of the window;
\* the controller is Active after step i only if the exit volatility of the
\* step is at or below the threshold, and exit() and rebalance() never both
\* run in one step.
C35_ExitedAfterHighVol == [][DriverIteration => ExitedAfterHighVol]_vars

\* The same on the iterations that yield a state.
ExitedAfterHighVolOnYield == [][DriverYield => ExitedAfterHighVol]_vars

\* ---------------------------------------------------------------------------
\* C36. Re-entry after an exit.

\* The step at index i re-enters: i is a multiple of the window and the exit
\* volatility of the step is at or below the threshold.
ReentryStep(i, current_exit_vol) ==
    i % window = 0 /\ current_exit_vol <= exit_vol_threshold

\* C36: in a driver run an Exited controller becomes Active at a step exactly
\* when the step's index is a multiple of the window and its exit volatility
\* is at or below the threshold, by the rebalance of that step: through every
\* other step it stays Exited with an empty ladder and its balances, also
\* when the exit volatility is back below the threshold, and at the first
\* step that is a multiple of the window under such a volatility it is
\* Active again.
C36_ReentryOnCadence ==
    [][(DriverIteration /\ ~is_active) =>
          /\ ret'.yielded
          /\ is_active' = ReentryStep(ret'.i, ret'.exit_vol)
          /\ ret'.rebalanced = is_active'
          /\ ~is_active' => /\ orders' = <<>>
                            /\ quote' = quote
                            /\ base' = base]_vars

\* An Exited controller has re-entered at a later multiple of the window.
C36_Witness ==
    /\ ret.op = "step"
    /\ ~ret.was_active
    /\ is_active
    /\ ret.rebalanced
    /\ ret.i >= window
    /\ ret.i % window = 0
    /\ ret.exit_vol <= exit_vol_threshold

\* An Exited controller has stayed Exited through a step whose exit
\* volatility was at or below the threshold.
StayedExitedOffCadence ==
    /\ ret.op = "step"
    /\ ~ret.was_active
    /\ ~is_active
    /\ ret.i % window # 0
    /\ ret.exit_vol <= exit_vol_threshold

\* ---------------------------------------------------------------------------
\* C37. The size of the grid.

\* C37: every grid the constructor or rebalance() passes to build_book has
\* at least two points, in fact at least three (a Bid, a hole and an Ask),
\* for every volatility of the series, volatility 0 included.
C37_GridHasThreePoints ==
    ret.op \in {"init", "rebalance"} =>
        /\ ticks_grid = update_ticks_grid(spot_price, vol)
        /\ Len(ticks_grid) >= 3

\* ---------------------------------------------------------------------------
\* C38. The fee baseline through an exit.

\* C38: exit() leaves open_price and open_capital unchanged, and so does
\* every call made while the controller is Exited; the fee of the first
\* rebalance after an exit is therefore computed against the capital recorded
\* by the last rebalance (or the construction) before the exit.
C38_BaselineKeptThroughExit ==
    [][/\ (steps' = steps + 1 /\ ~is_active') =>
            /\ open_price' = open_price
            /\ open_capital' = open_capital
       /\ (ret'.op = "rebalance" /\ ~is_active) =>
            LET capital == quote + base * spot_price
            IN /\ ret'.fees = generated_fees(capital, open_capital)
               /\ open_capital' = capital - ret'.fees
               /\ open_price' = spot_price]_vars

\* The first rebalance after an exit has charged a fee: the capital the
\* controller left the exit with was above the baseline of before the exit.
C38_Witness ==
    /\ ret.op = "rebalance"
    /\ ~ret.was_active
    /\ is_active
    /\ ret.fees > 0
    /\ open_capital > initial_capital

====
